---- MODULE Spec2Model ----
(***************************************************************************)
(* Motor vibration fault detector: the fault classifier, the health        *)
(* scorer and the report helpers of src/src/diagnostics.py, the feature    *)
(* extraction of src/src/features.py, load_csv of src/src/io_utils.py and  *)
(* analyze_all_files of src/scripts/analyze_vibration.py.                  *)
(*                                                                         *)
(* Numbers.  The source computes in floating point.  Here every feature    *)
(* value is an integer count of hundredths (rms 0.3 is 30, kurtosis 3.0 is *)
(* 300, hf_energy 0.02 is 2), and every confidence and every running score *)
(* is an integer count of 1/OneUnit, so that amp/0.8, amp/0.6, 15*c, 20*c  *)
(* and 35*c are exact.  A sample of a signal is an integer count of        *)
(* twentieths (0.25 is 5, 0.4 is 8).                                       *)
(***************************************************************************)
EXTENDS Integers, Sequences, FiniteSets, TLC

VARIABLES features,      \* the feature mapping handed to the classifier / scorer
          fault_type,    \* primary fault (classifier result, scorer argument)
          fault_list,    \* fired-fault list (classifier result, scorer argument)
          confidence,    \* confidence (classifier result, scorer argument)
          fault_scores,  \* the classifier's per-fault confidences (its local dict)
          health_score,  \* integer score (scorer result, report-helper argument)
          report,        \* the compiled report, <<>> until it is compiled
          pc,            \* the next stage of the pipeline to run
          samples,       \* the samples the caller wrote into its buffer
          accel,         \* the caller's buffer as it is now
          fs,            \* the sampling rate argument: <<>> is None, <<v>> is v Hz
          outcome,       \* "" or the exception a call ended with
          history,       \* outcome and report of the earlier calls on the buffer
          csv_file,      \* the CSV file handed to load_csv
          load_result,   \* what load_csv returned, <<>> until it returns
          listing,       \* the matching files in the order glob.glob gives them
          files,         \* analyze_all_files' list of files
          position,      \* the index in files of the file of this iteration
          running_freq,  \* the running_freq argument: <<>> is None, <<v>> is v Hz
          results,       \* analyze_all_files' list of collected reports
          trace,         \* the calls made and lines printed for each file so far
          summary,       \* whether the summary comparison was printed
          returned       \* "" until analyze_all_files returns, then "None" or "results"

\* the state of the calls on a signal
sigvars == <<samples, accel, fs, outcome, history>>

\* the state of a call of load_csv
loadvars == <<csv_file, load_result>>

\* the state of a call of analyze_all_files
batchvars == <<listing, files, position, running_freq, results, trace, summary,
               returned>>

vars == <<features, fault_type, fault_list, confidence, fault_scores, health_score,
          report, pc, sigvars, loadvars, batchvars>>

\* analyze_all_files is not called
NoBatch ==
  /\ listing = <<>>
  /\ files = <<>>
  /\ position = 0
  /\ running_freq = <<>>
  /\ results = <<>>
  /\ trace = <<>>
  /\ summary = FALSE
  /\ returned = ""

-----------------------------------------------------------------------------
(* Fixed-point representation of the source's floats. *)

\* 1.0 as a count of confidence/score units (80 and 60 both divide it).
OneUnit == 240

\* h hundredths (a literal such as 0.9 written 90) in units of 1/OneUnit.
Lit(h) == (h * OneUnit) \div 100

\* a / b for a, b in hundredths, in units of 1/OneUnit.
Ratio(a, b) == (a * OneUnit) \div b

\* n whole score points in units of 1/OneUnit.
Pts(n) == n * OneUnit

Min(a, b) == IF a <= b THEN a ELSE b

Max(a, b) == IF a >= b THEN a ELSE b

\* max() of a non-empty set of numbers.
MaxOf(S) == CHOOSE m \in S : \A x \in S : x <= m

-----------------------------------------------------------------------------
(* class FaultType *)

NORMAL == "NORMAL"

IMBALANCE == "IMBALANCE"

MISALIGNMENT == "MISALIGNMENT"

BEARING == "BEARING"

MULTIPLE == "MULTIPLE"

FaultType == {NORMAL, IMBALANCE, MISALIGNMENT, BEARING, MULTIPLE}

-----------------------------------------------------------------------------
(* Python dict and list primitives used by the source. *)

\* {} : the dict with no keys.
EmptyDict == [k \in {} |-> 0]

\* mutant: every lookup falls back to the kurtosis default 3.0
get_default_3(d, k, default) == IF k \in DOMAIN d THEN d[k] ELSE 300

\* d.get(k, default)
get(d, k, default) == IF k \in DOMAIN d THEN d[k] ELSE default

\* d[k] = v
setitem(d, k, v) == [j \in (DOMAIN d) \cup {k} |-> IF j = k THEN v ELSE d[j]]

\* d.values()
values(d) == {d[k] : k \in DOMAIN d}

\* mutant: the element is inserted at the front
insert_front(lst, x) == <<x>> \o lst

\* lst.append(x)
append(lst, x) == Append(lst, x)

\* x in lst
contains(lst, x) == \E i \in 1..Len(lst) : lst[i] = x

-----------------------------------------------------------------------------
(* detect_faults(features, running_freq) -> (primary, detected, confidence) *)

\* mutant: the threshold is inclusive
imbalance_fires_inclusive(amp_1x) == amp_1x >= 40

\* if amp_1x > 0.4
imbalance_fires(amp_1x) == amp_1x > 40

\* mutant: the cap at 1.0 is forgotten
imbalance_confidence_uncapped(amp_1x) == Ratio(amp_1x, 80)

\* min(1.0, amp_1x / 0.8)
imbalance_confidence(amp_1x) == Min(Lit(100), Ratio(amp_1x, 80))

\* if amp_2x > 0.3
misalignment_fires(amp_2x) == amp_2x > 30

\* min(1.0, amp_2x / 0.6)
misalignment_confidence(amp_2x) == Min(Lit(100), Ratio(amp_2x, 60))

\* mutant: the kurtosis threshold is inclusive
bearing_score_kurtosis_inclusive(kurtosis_val, crest_factor_val, hf_energy) ==
  LET b0 == Lit(0)
      b1 == IF kurtosis_val >= 400 THEN b0 + Lit(40) ELSE b0
      b2 == IF crest_factor_val > 600 THEN b1 + Lit(30) ELSE b1
  IN  IF hf_energy > 2 THEN b2 + Lit(30) ELSE b2

\* bearing_score after its three conditional increments
bearing_score_of(kurtosis_val, crest_factor_val, hf_energy) ==
  LET b0 == Lit(0)
      b1 == IF kurtosis_val > 400 THEN b0 + Lit(40) ELSE b0
      b2 == IF crest_factor_val > 600 THEN b1 + Lit(30) ELSE b1
  IN  IF hf_energy > 2 THEN b2 + Lit(30) ELSE b2

\* mutant: the bearing rule fires only above 0.7
bearing_fires_above_07(bearing_score) == bearing_score > Lit(70)

\* if bearing_score > 0.5
bearing_fires(bearing_score) == bearing_score > Lit(50)

\* mutant: a fired bearing rule always reports full confidence
bearing_confidence_full(bearing_score) == Lit(100)

\* min(1.0, bearing_score)
bearing_confidence(bearing_score) == Min(Lit(100), bearing_score)

\* mutant: two fired faults still report the first of them, MULTIPLE only
\* from three on
primary_of_late_multiple(detected_faults, scores) ==
  IF Len(detected_faults) = 0
  THEN <<NORMAL, Lit(90)>>
  ELSE IF Len(detected_faults) <= 2
  THEN <<detected_faults[1], scores[detected_faults[1]]>>
  ELSE <<MULTIPLE, MaxOf(values(scores))>>

\* DETERMINE PRIMARY FAULT: (primary_fault, confidence)
primary_of(detected_faults, scores) ==
  IF Len(detected_faults) = 0
  THEN <<NORMAL, Lit(90)>>
  ELSE IF Len(detected_faults) = 1
  THEN <<detected_faults[1], scores[detected_faults[1]]>>
  ELSE <<MULTIPLE, MaxOf(values(scores))>>

\* the whole function; fault_scores, a local of the source, is returned too
\* so that the per-fault confidences can be observed
detect_faults(f) ==
  LET kurtosis_val == get(f, "kurtosis", 300)
      crest_factor_val == get(f, "crest_factor", 0)
      amp_1x == get(f, "1x_amplitude", 0)
      amp_2x == get(f, "2x_amplitude", 0)
      hf_energy == get(f, "hf_energy", 0)
      detected1 == IF imbalance_fires(amp_1x)
                   THEN append(<<>>, IMBALANCE) ELSE <<>>
      scores1 == IF imbalance_fires(amp_1x)
                 THEN setitem(EmptyDict, IMBALANCE, imbalance_confidence(amp_1x))
                 ELSE EmptyDict
      detected2 == IF misalignment_fires(amp_2x)
                   THEN append(detected1, MISALIGNMENT) ELSE detected1
      scores2 == IF misalignment_fires(amp_2x)
                 THEN setitem(scores1, MISALIGNMENT, misalignment_confidence(amp_2x))
                 ELSE scores1
      bearing_score == bearing_score_of(kurtosis_val, crest_factor_val, hf_energy)
      detected_faults == IF bearing_fires(bearing_score)
                         THEN append(detected2, BEARING) ELSE detected2
      scores3 == IF bearing_fires(bearing_score)
                 THEN setitem(scores2, BEARING, bearing_confidence(bearing_score))
                 ELSE scores2
      primary == primary_of(detected_faults, scores3)
  IN  [primary_fault |-> primary[1], detected_faults |-> detected_faults,
       confidence |-> primary[2], fault_scores |-> scores3]

-----------------------------------------------------------------------------
(* calculate_health_score(features, fault_type, fault_list, confidence) *)

\* mutant: an exact .5 is rounded up
round_half_up(x) ==
  LET q == x \div OneUnit
      r == x % OneUnit
  IN  IF 2 * r < OneUnit THEN q ELSE q + 1

\* round(x) of a score x >= 0 held in units of 1/OneUnit: Python 3 rounds an
\* exact .5 to the even neighbour.
round(x) ==
  LET q == x \div OneUnit
      r == x % OneUnit
  IN  IF 2 * r < OneUnit THEN q
      ELSE IF 2 * r > OneUnit THEN q + 1
      ELSE IF q % 2 = 0 THEN q ELSE q + 1

\* mutant: the lower clamp is forgotten
clamp_upper_only(score) == Min(Pts(100), score)

\* max(0.0, min(100.0, score))
clamp(score) == Max(Pts(0), Min(Pts(100), score))

\* mutant: the upper rms threshold is inclusive
calculate_health_score_rms_inclusive(f, ft, fl, c) ==
  LET rms_val == get(f, "rms", 0)
      kurtosis_val == get(f, "kurtosis", 300)
      crest_factor_val == get(f, "crest_factor", 0)
      total_energy == get(f, "total_energy", 0)
      score0 == Pts(100)
      score1 == IF rms_val >= 60 THEN score0 - Pts(30)
                ELSE IF rms_val > 30 THEN score0 - Pts(15)
                ELSE score0
      score2 == IF kurtosis_val > 800 THEN score1 - Pts(20)
                ELSE IF kurtosis_val > 500 THEN score1 - Pts(10)
                ELSE score1
      score3 == IF crest_factor_val > 800 THEN score2 - Pts(15)
                ELSE IF crest_factor_val > 600 THEN score2 - Pts(8)
                ELSE score2
      score4 == IF ft = NORMAL THEN score3
                ELSE IF ft = IMBALANCE THEN score3 - 15 * c
                ELSE IF ft = MISALIGNMENT THEN score3 - 20 * c
                ELSE IF ft = BEARING THEN score3 - 35 * c
                ELSE IF ft = MULTIPLE THEN score3 - Pts(40)
                ELSE score3
      score5 == IF total_energy > 50 THEN score4 - Pts(10) ELSE score4
      score == clamp(score5)
  IN  round(score)

calculate_health_score(f, ft, fl, c) ==
  LET rms_val == get(f, "rms", 0)
      kurtosis_val == get(f, "kurtosis", 300)
      crest_factor_val == get(f, "crest_factor", 0)
      total_energy == get(f, "total_energy", 0)
      score0 == Pts(100)
      score1 == IF rms_val > 60 THEN score0 - Pts(30)
                ELSE IF rms_val > 30 THEN score0 - Pts(15)
                ELSE score0
      score2 == IF kurtosis_val > 800 THEN score1 - Pts(20)
                ELSE IF kurtosis_val > 500 THEN score1 - Pts(10)
                ELSE score1
      score3 == IF crest_factor_val > 800 THEN score2 - Pts(15)
                ELSE IF crest_factor_val > 600 THEN score2 - Pts(8)
                ELSE score2
      score4 == IF ft = NORMAL THEN score3
                ELSE IF ft = IMBALANCE THEN score3 - 15 * c
                ELSE IF ft = MISALIGNMENT THEN score3 - 20 * c
                ELSE IF ft = BEARING THEN score3 - 35 * c
                ELSE IF ft = MULTIPLE THEN score3 - Pts(40)
                ELSE score3
      score5 == IF total_energy > 50 THEN score4 - Pts(10) ELSE score4
      score == clamp(score5)
  IN  round(score)

-----------------------------------------------------------------------------
(* _health_status(score) *)

\* mutant: the breakpoints are exclusive
_health_status_exclusive(score) ==
  IF score > 85 THEN "HEALTHY"
  ELSE IF score > 70 THEN "ACCEPTABLE"
  ELSE IF score > 50 THEN "WARNING"
  ELSE "CRITICAL"

_health_status(score) ==
  IF score >= 85 THEN "HEALTHY"
  ELSE IF score >= 70 THEN "ACCEPTABLE"
  ELSE IF score >= 50 THEN "WARNING"
  ELSE "CRITICAL"

(* _generate_recommendations(fault_type, health_score, fault_list); the     *)
(* lines are the source's, without their leading pictographs.               *)

NormalLines == <<"Machine operating normally", "Continue routine monitoring">>

ImbalanceLines == <<"Imbalance detected - Check rotor balance",
                    "Inspect for uneven mass distribution">>

MisalignmentLines == <<"Misalignment detected - Check shaft alignment",
                       "Verify coupling and bearing alignment">>

BearingLines == <<"Bearing fault indicators present",
                  "Inspect bearings for wear/damage",
                  "Consider bearing replacement soon">>

MultipleLine == "Multiple fault indicators - Priority inspection needed"

ImmediateLine == "CRITICAL: Schedule immediate maintenance"

PlanLine == "Plan maintenance within next scheduled window"

\* mutant: the maintenance thresholds are inclusive
_generate_recommendations_inclusive(ft, score, fl) ==
  LET r0 == <<>>
      r1 == IF ft = NORMAL THEN r0 \o NormalLines ELSE r0
      r2 == IF contains(fl, IMBALANCE) THEN r1 \o ImbalanceLines ELSE r1
      r3 == IF contains(fl, MISALIGNMENT) THEN r2 \o MisalignmentLines ELSE r2
      r4 == IF contains(fl, BEARING) THEN r3 \o BearingLines ELSE r3
      r5 == IF Len(fl) > 1 THEN Append(r4, MultipleLine) ELSE r4
  IN  IF score <= 50 THEN Append(r5, ImmediateLine)
      ELSE IF score <= 70 THEN Append(r5, PlanLine)
      ELSE r5

\* mutant: the fault rules are chained with elif, so the first that applies
\* suppresses the rest
_generate_recommendations_elif(ft, score, fl) ==
  LET r0 == <<>>
      r4 == IF ft = NORMAL THEN r0 \o NormalLines
            ELSE IF contains(fl, IMBALANCE) THEN r0 \o ImbalanceLines
            ELSE IF contains(fl, MISALIGNMENT) THEN r0 \o MisalignmentLines
            ELSE IF contains(fl, BEARING) THEN r0 \o BearingLines
            ELSE r0
      r5 == IF Len(fl) > 1 THEN Append(r4, MultipleLine) ELSE r4
  IN  IF score < 50 THEN Append(r5, ImmediateLine)
      ELSE IF score < 70 THEN Append(r5, PlanLine)
      ELSE r5

_generate_recommendations(ft, score, fl) ==
  LET r0 == <<>>
      r1 == IF ft = NORMAL THEN r0 \o NormalLines ELSE r0
      r2 == IF contains(fl, IMBALANCE) THEN r1 \o ImbalanceLines ELSE r1
      r3 == IF contains(fl, MISALIGNMENT) THEN r2 \o MisalignmentLines ELSE r2
      r4 == IF contains(fl, BEARING) THEN r3 \o BearingLines ELSE r3
      r5 == IF Len(fl) > 1 THEN Append(r4, MultipleLine) ELSE r4
  IN  IF score < 50 THEN Append(r5, ImmediateLine)
      ELSE IF score < 70 THEN Append(r5, PlanLine)
      ELSE r5

(* round(confidence, 3) and round(v, 4) of the report (display precision).  *)

\* round(c, 3) of a confidence c in units of 1/OneUnit, in thousandths.
round3(c) ==
  LET n == c * 1000
      q == n \div OneUnit
      r == n % OneUnit
  IN  IF 2 * r < OneUnit THEN q
      ELSE IF 2 * r > OneUnit THEN q + 1
      ELSE IF q % 2 = 0 THEN q ELSE q + 1

\* round(v, 4) of a feature value v in hundredths, in ten-thousandths.
round4(v) == v * 100

-----------------------------------------------------------------------------
(* src/src/features.py.  A signal x is a sequence of samples in            *)
(* twentieths.  A feature is returned in hundredths, rounded up, so that   *)
(* every strict threshold test of the classifier and the scorer            *)
(* (value > 0.3, ...) has the outcome it has on the value itself; a band   *)
(* energy is kept as a fraction until it is stored.  A frequency is a      *)
(* fraction <<numerator, denominator>> of Hz with a positive denominator.  *)
(* A confidence computed from an amplitude is that of the amplitude        *)
(* rounded up to the hundredth (0.525 counts as 0.53), so a health score   *)
(* derived from it can lie one point from the one the floats give.         *)

\* the fixed vocabulary of feature names
FeatureNames ==
  {"rms", "peak_to_peak", "kurtosis", "crest_factor", "1x_amplitude",
   "2x_amplitude", "hf_energy", "lf_energy", "spectral_centroid", "total_energy"}

\* a float that is not a number (np.mean of an empty array)
NaN == 0 - 999999

\* the least q with q * b >= a, for a >= 0 and b > 0
CeilDiv(a, b) == (a + b - 1) \div b

RECURSIVE CeilSqrtIn(_, _, _, _)
CeilSqrtIn(num, den, lo, hi) ==
  IF lo = hi THEN lo
  ELSE LET mid == (lo + hi) \div 2
       IN  IF mid * mid * den >= num THEN CeilSqrtIn(num, den, lo, mid)
           ELSE CeilSqrtIn(num, den, mid + 1, hi)

\* the least r >= 0 with r * r >= num / den, for num >= 0 and den > 0
CeilSqrt(num, den) == CeilSqrtIn(num, den, 0, 1024)

\* 100 * a / b rounded up, by long division (a >= 0, b > 0)
CeilRatio100(a, b) ==
  LET q0 == a \div b
      r0 == a % b
      d1 == (10 * r0) \div b
      r1 == (10 * r0) % b
      d2 == (10 * r1) \div b
      r2 == (10 * r1) % b
  IN  100 * q0 + 10 * d1 + d2 + (IF r2 > 0 THEN 1 ELSE 0)

\* a <= b for fractions with positive denominators
LeqQ(a, b) == a[1] * b[2] <= b[1] * a[2]

RECURSIVE SumOver(_, _)
SumOver(s, i) == IF i = 0 THEN 0 ELSE s[i] + SumOver(s, i - 1)

\* np.sum of an array of integers
np_sum(s) == SumOver(s, Len(s))

\* np.abs(x), element by element
np_abs(x) == [i \in DOMAIN x |-> IF x[i] < 0 THEN 0 - x[i] ELSE x[i]]

\* np.max of a non-empty array
np_max(x) == MaxOf({x[i] : i \in DOMAIN x})

\* np.min of a non-empty array
np_min(x) == 0 - MaxOf({0 - x[i] : i \in DOMAIN x})

\* np.max and np.min raise ValueError on a zero-size array
np_max_raises(x) == Len(x) = 0

\* mutant: the buffer is shifted in place
asarray_in_place(x) == [i \in DOMAIN x |-> x[i] + 1]

\* np.asarray(x, dtype=float) of a float array: the array itself, no copy;
\* no statement of the module assigns to its elements
asarray(x) == x

\* float(np.sqrt(np.mean(x**2))), in hundredths
rms(x) ==
  IF Len(x) = 0 THEN NaN
  ELSE CeilSqrt(25 * np_sum([i \in DOMAIN x |-> x[i] * x[i]]), Len(x))

\* float(np.max(x) - np.min(x)), in hundredths
peak_to_peak(x) == 5 * (np_max(x) - np_min(x))

\* np.mean of n equal doubles c/20 need not be that double: the sum of three
\* of them is rounded, and for these c the quotient by 3 is a neighbour of
\* c/20 (0.4 + 0.4 + 0.4 is 1.2000000000000002, a third of it
\* 0.4000000000000001)
np_mean_inexact(x) ==
  /\ Len(x) = 3
  /\ x[1] = x[2] /\ x[2] = x[3]
  /\ np_abs(x)[1] \in {1, 2, 4, 7, 8, 14, 16}

\* mu = np.mean(x); sigma = np.std(x); 0.0 if sigma == 0, else
\* float(np.mean(((x - mu) / sigma)**4)), in hundredths.  With D[i] =
\* N * (x[i] - mu) the value is N * sum(D**4) / sum(D**2)**2.  On a constant
\* signal whose computed mean is not the sample, every x[i] - mu is the same
\* rounding residue, sigma is its magnitude and the value is 1.0.
kurtosis(x) ==
  LET N == Len(x)
      total == np_sum(x)
      D == [i \in 1..N |-> N * x[i] - total]
      s2 == np_sum([i \in 1..N |-> D[i] * D[i]])
      s4 == np_sum([i \in 1..N |-> D[i] * D[i] * D[i] * D[i]])
  IN  IF N = 0 THEN NaN
      ELSE IF s2 = 0 /\ ~np_mean_inexact(x) THEN 0
      ELSE IF s2 = 0 THEN 100
      ELSE CeilRatio100(N * s4, s2 * s2)

\* r = rms(x); 0.0 if r == 0, else float(np.max(np.abs(x)) / r), in
\* hundredths
crest_factor(x) ==
  LET r == rms(x)
      peak == np_max(np_abs(x))
  IN  IF r = 0 THEN 0
      ELSE CeilSqrt(10000 * peak * peak * Len(x),
                    np_sum([i \in DOMAIN x |-> x[i] * x[i]]))

\* 2 * cos(2 * pi * j / N) for the lengths N whose cosines are rational
TwoCos(N, j) ==
  CASE N = 1 -> 2
    [] N = 2 -> IF j = 0 THEN 2 ELSE 0 - 2
    [] N = 3 -> IF j = 0 THEN 2 ELSE 0 - 1
    [] N = 4 -> IF j = 0 THEN 2 ELSE IF j = 2 THEN 0 - 2 ELSE 0

\* np.fft.rfft raises ValueError on zero data points
rfft_raises(x) == Len(x) = 0

\* twice |np.fft.rfft(x)[k]|**2, in twentieths squared: the sum over n, m of
\* x[n] * x[m] * 2 * cos(2 * pi * k * (n - m) / N)
rfft_power(x, k) ==
  LET N == Len(x)
  IN  np_sum([n \in 1..N |->
        np_sum([m \in 1..N |-> x[n] * x[m] * TwoCos(N, (k * (n - m + N)) % N)])])

\* 1/fs raises TypeError when fs is None and ZeroDivisionError when it is 0
inverse_raises(fs_val) ==
  IF fs_val = <<>> THEN "TypeError"
  ELSE IF fs_val[1] = 0 THEN "ZeroDivisionError"
  ELSE ""

\* np.fft.rfftfreq computes val = 1.0 / (N * d) with d = 1/fs in IEEE doubles:
\* the sign of val - fs / N.  For N <= 4 and the sampling rates modelled, the
\* two roundings cancel except at 49 Hz (1/49.0 is rounded down, so val is
\* 49.00000000000001, 24.500000000000004, 16.333333333333332,
\* 12.250000000000002), at 400 Hz with N = 3 (133.33333333333334) and at
\* 1 Hz and 2 Hz with N = 3 (0.3333333333333333, 0.6666666666666666).
rfftfreq_rounding(N, fs_val) ==
  IF fs_val[1] = 49 THEN (IF N = 3 THEN 0 - 1 ELSE 1)
  ELSE IF fs_val[1] = 400 /\ N = 3 THEN 1
  ELSE IF fs_val[1] \in {1, 2} /\ N = 3 THEN 0 - 1
  ELSE 0

\* np.fft.rfftfreq(N, d=1/fs): bin k at k * val, for k = 0 .. N // 2, as
\* <<numerator, denominator, sign of the rounding error>>; 0 * val and
\* 2 * val are exact products, so bin k > 0 errs as val does
rfftfreq(N, fs_val) ==
  [j \in 1..((N \div 2) + 1) |->
     <<(j - 1) * fs_val[1], N,
       IF j = 1 THEN 0 ELSE rfftfreq_rounding(N, fs_val)>>]

\* mutant: the spectrum is scaled by 2.0 without the division by N
compute_fft_unnormalized(x, fs_val) ==
  LET N == Len(x)
  IN  [freqs |-> rfftfreq(N, fs_val),
       mags |-> [j \in 1..((N \div 2) + 1) |-> <<rfft_power(x, j - 1), 2>>]]

\* freqs = rfftfreq(N, d=1/fs); mags = np.abs(rfft(x)) * (2.0 / N).  A
\* magnitude is kept by its square in hundredths, as a fraction:
\* (|X| * 2 / N)**2 = rfft_power / (2 * N * N) hundredths.
compute_fft(x, fs_val) ==
  LET N == Len(x)
  IN  [freqs |-> rfftfreq(N, fs_val),
       mags |-> [j \in 1..((N \div 2) + 1) |-> <<rfft_power(x, j - 1), 2 * N * N>>]]

\* mask = (freqs >= f_low) & (freqs <= f_high), as the set of bins it keeps;
\* the bounds are exact doubles (100.0, 50.0, fs/2, f_center -+ 2.0), and a
\* bin whose exact frequency is a bound lies on the side its rounding error
\* puts it
band_mask(freqs, f_low, f_high) ==
  {j \in DOMAIN freqs :
     /\ LeqQ(f_low, freqs[j])
     /\ LeqQ(freqs[j], f_low) => freqs[j][3] >= 0
     /\ LeqQ(freqs[j], f_high)
     /\ LeqQ(f_high, freqs[j]) => freqs[j][3] <= 0}

\* a magnitude in hundredths, from its square
magnitude(m) == CeilSqrt(100 * m[1], m[2])

\* float(np.sum(mags[mask]**2)), in hundredths as a fraction
spectral_energy(freqs, mags, f_low, f_high) ==
  LET mask == band_mask(freqs, f_low, f_high)
  IN  <<np_sum([j \in DOMAIN mags |-> IF j \in mask THEN mags[j][1] ELSE 0]),
        mags[1][2]>>

\* float(np.max(mags[mask])) if np.any(mask), else 0.0, in hundredths; the
\* band is f_center -+ bandwidth with the default bandwidth 2.0
peak_frequency_amplitude(freqs, mags, f_center) ==
  LET mask == band_mask(freqs, <<f_center - 2, 1>>, <<f_center + 2, 1>>)
  IN  IF mask # {} THEN MaxOf({magnitude(mags[j]) : j \in mask})
      ELSE 0

\* 0.0 if np.sum(mags) == 0, else float(np.sum(freqs * mags) / np.sum(mags)),
\* in hundredths of Hz, from the magnitudes in hundredths
spectral_centroid(freqs, mags) ==
  LET total_energy == np_sum([j \in DOMAIN mags |-> magnitude(mags[j])])
  IN  IF total_energy = 0 THEN 0
      ELSE (100 * np_sum([j \in DOMAIN mags |-> freqs[j][1] * magnitude(mags[j])]))
             \div (freqs[1][2] * total_energy)

\* a fraction of hundredths stored as a feature, in hundredths
stored(q) == CeilDiv(q[1], q[2])

\* running_freq: float = 30.0
DefaultRunningFreq == 30

\* the exception extract_fault_indicators ends with, "" if it returns: the
\* time-domain features are evaluated first (peak_to_peak is the first to
\* take np.max), then rfft(x), then 1/fs
extract_raises(x, fs_val) ==
  IF np_max_raises(x) THEN "ValueError"
  ELSE IF rfft_raises(x) THEN "ValueError"
  ELSE inverse_raises(fs_val)

\* mutant: an empty signal is not an error, its undefined features are
\* returned
extract_fault_indicators_nan(x, fs_val) ==
  IF Len(x) = 0 /\ inverse_raises(fs_val) = ""
  THEN [raised |-> "", features |-> [n \in FeatureNames |-> NaN]]
  ELSE IF extract_raises(x, fs_val) # ""
  THEN [raised |-> extract_raises(x, fs_val), features |-> EmptyDict]
  ELSE LET spectrum == compute_fft(x, fs_val)
           freqs == spectrum.freqs
           mags == spectrum.mags
           nyquist == <<fs_val[1], 2>>
       IN  [raised |-> "",
            features |->
              [n \in FeatureNames |->
                 CASE n = "rms" -> rms(x)
                   [] n = "peak_to_peak" -> peak_to_peak(x)
                   [] n = "kurtosis" -> kurtosis(x)
                   [] n = "crest_factor" -> crest_factor(x)
                   [] n = "1x_amplitude" ->
                        peak_frequency_amplitude(freqs, mags, DefaultRunningFreq)
                   [] n = "2x_amplitude" ->
                        peak_frequency_amplitude(freqs, mags, 2 * DefaultRunningFreq)
                   [] n = "hf_energy" ->
                        stored(spectral_energy(freqs, mags, <<100, 1>>, nyquist))
                   [] n = "lf_energy" ->
                        stored(spectral_energy(freqs, mags, <<0, 1>>, <<50, 1>>))
                   [] n = "spectral_centroid" -> spectral_centroid(freqs, mags)
                   [] n = "total_energy" ->
                        stored(spectral_energy(freqs, mags, <<0, 1>>, nyquist))]]

\* extract_fault_indicators(x, fs, running_freq=30.0): the exception it
\* raises, or the feature mapping it returns
extract_fault_indicators(x, fs_val) ==
  IF extract_raises(x, fs_val) # ""
  THEN [raised |-> extract_raises(x, fs_val), features |-> EmptyDict]
  ELSE LET spectrum == compute_fft(x, fs_val)
           freqs == spectrum.freqs
           mags == spectrum.mags
           nyquist == <<fs_val[1], 2>>
       IN  [raised |-> "",
            features |->
              [n \in FeatureNames |->
                 CASE n = "rms" -> rms(x)
                   [] n = "peak_to_peak" -> peak_to_peak(x)
                   [] n = "kurtosis" -> kurtosis(x)
                   [] n = "crest_factor" -> crest_factor(x)
                   [] n = "1x_amplitude" ->
                        peak_frequency_amplitude(freqs, mags, DefaultRunningFreq)
                   [] n = "2x_amplitude" ->
                        peak_frequency_amplitude(freqs, mags, 2 * DefaultRunningFreq)
                   [] n = "hf_energy" ->
                        stored(spectral_energy(freqs, mags, <<100, 1>>, nyquist))
                   [] n = "lf_energy" ->
                        stored(spectral_energy(freqs, mags, <<0, 1>>, <<50, 1>>))
                   [] n = "spectral_centroid" -> spectral_centroid(freqs, mags)
                   [] n = "total_energy" ->
                        stored(spectral_energy(freqs, mags, <<0, 1>>, nyquist))]]

-----------------------------------------------------------------------------
(* src/src/io_utils.py.  A CSV file is its header (the column names) and   *)
(* its data rows; a time value is a whole number of seconds.               *)

\* no file: the value of csv_file where load_csv is not called
NoFile == [cols |-> <<>>, rows |-> <<>>]

\* np.genfromtxt(path, delimiter=",", names=True): a structured array with
\* one field per column; it is squeezed, so a file with exactly one data row
\* gives a 0-dimensional array, any other number of rows a 1-dimensional one
genfromtxt(file) ==
  [names |-> file.cols,
   ndim |-> IF Len(file.rows) = 1 THEN 0 ELSE 1,
   rows |-> file.rows]

\* data[name]: the field of that name, of the dimension of data
field(data, name) ==
  LET j == CHOOSE j \in DOMAIN data.names : data.names[j] = name
  IN  [ndim |-> data.ndim, values |-> [i \in DOMAIN data.rows |-> data.rows[i][j]]]

\* len(a) raises TypeError on a 0-dimensional array (len() of unsized object)
len_raises(a) == a.ndim = 0

\* np.diff(t)
np_diff(t) == [i \in 1..(Len(t) - 1) |-> t[i + 1] - t[i]]

\* the k-th smallest element of a non-empty array
kth_smallest(d, k) ==
  CHOOSE v \in {d[i] : i \in DOMAIN d} :
    /\ Cardinality({i \in DOMAIN d : d[i] < v}) < k
    /\ Cardinality({i \in DOMAIN d : d[i] <= v}) >= k

\* twice np.median(d): the middle element, or the mean of the two middle ones
np_median_doubled(d) ==
  LET L == Len(d)
  IN  IF L % 2 = 1 THEN 2 * kth_smallest(d, (L + 1) \div 2)
      ELSE kth_smallest(d, L \div 2) + kth_smallest(d, (L \div 2) + 1)

\* dt = float(np.median(np.diff(time))); fs = (1.0 / dt) if dt > 0 else None.
\* fs is the fraction 2 / (2 * dt) of Hz, <<>> for None
infer_fs(time) ==
  LET dt2 == np_median_doubled(np_diff(time.values))
  IN  IF dt2 > 0 THEN <<(<<2, dt2>>)>> ELSE <<>>

\* load_csv(path): the exception it raises, or (time, accel, fs); time is
\* <<>> for None
load_csv(file) ==
  LET data == genfromtxt(file)
      cols == data.names
      has(name) == \E j \in DOMAIN cols : cols[j] = name
      accel_col == IF has("accel") THEN field(data, "accel")
                   ELSE field(data, cols[Len(cols)])
      time == field(data, "time")
  IN  IF has("time")
      THEN IF len_raises(time)
           THEN [raised |-> "TypeError", time |-> <<>>, accel |-> <<>>, fs |-> <<>>]
           ELSE IF Len(time.values) >= 2
           THEN [raised |-> "", time |-> <<time.values>>, accel |-> accel_col.values,
                 fs |-> infer_fs(time)]
           ELSE [raised |-> "", time |-> <<time.values>>, accel |-> accel_col.values,
                 fs |-> <<>>]
      ELSE [raised |-> "", time |-> <<>>, accel |-> accel_col.values, fs |-> <<>>]

-----------------------------------------------------------------------------
(* src/scripts/analyze_vibration.py.  A matching file is its name and its  *)
(* CSV content; the names are numbered in their lexicographic order.       *)

\* mutant: the files are taken in the order glob.glob gives them
unsorted(l) == l

\* sorted(glob.glob(pattern)): the matching files by ascending name
sorted(l) ==
  [i \in 1..Len(l) |->
     CHOOSE e \in {l[j] : j \in DOMAIN l} :
       Cardinality({j \in DOMAIN l : l[j].name < e.name}) = i - 1]

\* the exceptions that are instances of Exception, among those raised by the
\* calls modelled
Exception == {"ValueError", "TypeError", "ZeroDivisionError"}

\* f_low = f_center - bandwidth raises TypeError when running_freq is None
peak_frequency_raises(f_center) == f_center = <<>>

\* the exception diagnose_vibration(accel, fs, running_freq) ends with, ""
\* if it returns: the time-domain features and the spectrum are evaluated
\* before the first peak_frequency_amplitude
diagnose_raises(x, fs_val, f_center) ==
  IF extract_raises(x, fs_val) # "" THEN extract_raises(x, fs_val)
  ELSE IF peak_frequency_raises(f_center) THEN "TypeError"
  ELSE ""

\* the float fs that load_csv returned, a fraction of Hz, as the sampling
\* rate handed to diagnose_vibration; the rates of the files modelled are
\* whole
rate_of(q) == <<q[1] \div q[2]>>

-----------------------------------------------------------------------------
(* Inputs.  Each feature takes the values on and just above each of its    *)
(* thresholds, up to a bound, or is absent from the mapping.               *)

MaxRms == 61

MaxKurtosis == 801

MaxCrest == 801

Max1x == 81

Max2x == 61

MaxHf == 3

MaxTotalEnergy == 51

MaxScoreArg == 100

RmsValues == {30, 31} \cup 60..MaxRms

KurtosisValues == {400, 401, 500, 501} \cup 800..MaxKurtosis

CrestValues == {600, 601} \cup 800..MaxCrest

Amp1xValues == {40, 41} \cup 80..Max1x

Amp2xValues == {30, 31} \cup 60..Max2x

HfValues == 2..MaxHf

TotalEnergyValues == 50..MaxTotalEnergy

\* "absent" is <<>>, "present with value v" is <<v>>.
Opt(S) == {<<>>} \cup {<<v>> : v \in S}

\* the dict holding exactly the present entries of o
MakeDict(o) == [k \in {n \in DOMAIN o : o[n] # <<>>} |-> o[k][1]]

FeatureMaps ==
  { MakeDict([n \in {"rms", "kurtosis", "crest_factor", "1x_amplitude",
                     "2x_amplitude", "hf_energy", "total_energy"} |->
                CASE n = "rms" -> r
                  [] n = "kurtosis" -> k
                  [] n = "crest_factor" -> cf
                  [] n = "1x_amplitude" -> a1
                  [] n = "2x_amplitude" -> a2
                  [] n = "hf_energy" -> hf
                  [] n = "total_energy" -> te]) :
      r \in Opt(RmsValues), k \in Opt(KurtosisValues), cf \in Opt(CrestValues),
      a1 \in Opt(Amp1xValues), a2 \in Opt(Amp2xValues), hf \in Opt(HfValues),
      te \in Opt(TotalEnergyValues) }

\* the mappings that hold none of the features only the classifier reads
ScorerFeatureMaps ==
  { f \in FeatureMaps :
      DOMAIN f \subseteq {"rms", "kurtosis", "crest_factor", "total_energy"} }

\* confidences handed to the scorer directly: -1.0, 0, 0.41/0.8, 0.7, 0.9, 1.0
ConfidenceArgs == {0 - Lit(100), Lit(0), Ratio(41, 80), Lit(70), Lit(90), Lit(100)}

\* fired-fault lists handed to the scorer directly
ScorerListArgs == {<<>>, <<IMBALANCE>>, <<MISALIGNMENT, BEARING>>}

\* fired-fault lists handed to the report helpers directly: the
\* duplicate-free lists over the three detectable faults, in any order
ReportListArgs ==
  { s \in UNION {[1..n -> {IMBALANCE, MISALIGNMENT, BEARING}] : n \in 0..3} :
      \A i, j \in 1..Len(s) : i # j => s[i] # s[j] }

\* the signals, of at most 4 samples (the lengths whose cosines are
\* rational): every sequence of 4 samples over 0, 0.25 and 0.4 of either
\* sign, and every shorter one over these and the large magnitudes 0.65,
\* 0.75, ...
MaxLargeSamples == 1

SmallValues == {0, 5, 0 - 5, 8, 0 - 8}

SampleValues ==
  SmallValues \cup {11 + 2 * i : i \in 1..MaxLargeSamples}
              \cup {0 - (11 + 2 * i) : i \in 1..MaxLargeSamples}

Signals == UNION {[1..n -> SampleValues] : n \in 0..3} \cup [1..4 -> SmallValues]

\* the sampling rates: None, 0, a negative one, rates that put a bin on
\* 30 Hz, on 60 Hz and on 100 Hz, and a rate (49 Hz) whose frequency step
\* is not computed exactly
FsValues == {<<>>, <<0>>, <<0 - 120>>, <<49>>, <<60>>, <<120>>, <<400>>}

\* the number of times diagnose_vibration is called again on the buffer
MaxRepeats == 1

\* the CSV files: with or without a time column, with or without a column
\* named accel, up to MaxRows data rows, time values up to MaxTime
MaxRows == 3

MaxTime == 2

Headers == {<<"time", "accel">>, <<"accel">>, <<"time", "value">>, <<"value">>}

Files ==
  { [cols |-> c,
     rows |-> [i \in 1..Len(t) |->
                 [j \in 1..Len(c) |-> IF c[j] = "time" THEN t[i] ELSE 0]]] :
      c \in Headers, t \in UNION {[1..n -> 0..MaxTime] : n \in 0..MaxRows} }

\* the files of a batch: 0.25, -0.25 at 1 Hz; 0.65, -0.65, 0.65 at 1 Hz; a
\* file without a time column; a file with one data row
BatchFiles ==
  { [cols |-> <<"time", "accel">>, rows |-> <<(<<0, 5>>), (<<1, 0 - 5>>)>>],
    [cols |-> <<"time", "accel">>,
     rows |-> <<(<<0, 13>>), (<<1, 0 - 13>>), (<<2, 13>>)>>],
    [cols |-> <<"accel">>, rows |-> <<(<<5>>), (<<0 - 5>>)>>],
    [cols |-> <<"time", "accel">>, rows |-> <<(<<0, 5>>)>>] }

\* the number of files that match the pattern
MaxFiles == 3

\* what glob.glob may return: up to MaxFiles files of distinct names, in
\* any order
Listings ==
  UNION { {l \in [1..n -> [name : 1..n, file : BatchFiles]] :
             \A i, j \in 1..n : i # j => l[i].name # l[j].name} :
          n \in 0..MaxFiles }

\* the running_freq argument: the default, or None
RunningFreqs == {<<DefaultRunningFreq>>, <<>>}

-----------------------------------------------------------------------------
(* The pipeline of diagnose_vibration from the feature mapping on, and the *)
(* direct calls of its stages.                                             *)

\* a call of detect_faults (or of the pipeline) on a feature mapping
Init ==
  /\ features \in FeatureMaps
  /\ fault_type = ""
  /\ fault_list = <<>>
  /\ confidence = 0
  /\ fault_scores = EmptyDict
  /\ health_score = 0
  /\ report = <<>>
  /\ pc = "detect_faults"
  /\ samples = <<>>
  /\ accel = <<>>
  /\ fs = <<>>
  /\ outcome = ""
  /\ history = <<>>
  /\ csv_file = NoFile
  /\ NoBatch
  /\ load_result = <<>>

\* a direct call of calculate_health_score on arbitrary arguments
InitScore ==
  /\ features \in ScorerFeatureMaps
  /\ fault_type \in FaultType
  /\ fault_list \in ScorerListArgs
  /\ confidence \in ConfidenceArgs
  /\ fault_scores = EmptyDict
  /\ health_score = 0
  /\ report = <<>>
  /\ pc = "calculate_health_score"
  /\ samples = <<>>
  /\ accel = <<>>
  /\ fs = <<>>
  /\ outcome = ""
  /\ history = <<>>
  /\ csv_file = NoFile
  /\ NoBatch
  /\ load_result = <<>>

\* a direct use of the report helpers on arbitrary arguments
InitReport ==
  /\ features = EmptyDict
  /\ fault_type \in FaultType
  /\ fault_list \in ReportListArgs
  /\ confidence = Lit(90)
  /\ fault_scores = EmptyDict
  /\ health_score \in 0..MaxScoreArg
  /\ report = <<>>
  /\ pc = "compile_report"
  /\ samples = <<>>
  /\ accel = <<>>
  /\ fs = <<>>
  /\ outcome = ""
  /\ history = <<>>
  /\ csv_file = NoFile
  /\ NoBatch
  /\ load_result = <<>>

\* primary_fault, fault_list, confidence = detect_faults(features, running_freq)
DetectFaults ==
  /\ pc = "detect_faults"
  /\ LET res == detect_faults(features)
     IN  /\ fault_type' = res.primary_fault
         /\ fault_list' = res.detected_faults
         /\ confidence' = res.confidence
         /\ fault_scores' = res.fault_scores
  /\ pc' = "calculate_health_score"
  /\ UNCHANGED <<features, health_score, report, sigvars, loadvars, batchvars>>

\* health_score = calculate_health_score(features, primary_fault, fault_list, confidence)
CalculateHealthScore ==
  /\ pc = "calculate_health_score"
  /\ health_score' = calculate_health_score(features, fault_type, fault_list, confidence)
  /\ pc' = "compile_report"
  /\ UNCHANGED <<features, fault_type, fault_list, confidence, fault_scores, report,
                 sigvars, loadvars, batchvars>>

\* report = {...}
CompileReport ==
  /\ pc = "compile_report"
  /\ report' = [health_score |-> health_score,
                status |-> _health_status(health_score),
                primary_fault |-> fault_type,
                detected_faults |-> fault_list,
                confidence |-> round3(confidence),
                features |-> [k \in DOMAIN features |-> round4(features[k])],
                recommendations |->
                  _generate_recommendations(fault_type, health_score, fault_list)]
  /\ pc' = "done"
  /\ UNCHANGED <<features, fault_type, fault_list, confidence, fault_scores,
                 health_score, sigvars, loadvars, batchvars>>

Next == DetectFaults \/ CalculateHealthScore \/ CompileReport

Spec == Init /\ [][Next]_vars

NextScore == CalculateHealthScore

SpecScore == InitScore /\ [][NextScore]_vars

NextReport == CompileReport

SpecReport == InitReport /\ [][NextReport]_vars

-----------------------------------------------------------------------------
(* diagnose_vibration(accel, fs) on a signal, called repeatedly on the same *)
(* buffer.                                                                  *)

InitSignal ==
  /\ samples \in Signals
  /\ accel = samples
  /\ fs \in FsValues
  /\ outcome = ""
  /\ history = <<>>
  /\ features = EmptyDict
  /\ fault_type = ""
  /\ fault_list = <<>>
  /\ confidence = 0
  /\ fault_scores = EmptyDict
  /\ health_score = 0
  /\ report = <<>>
  /\ pc = "extract_fault_indicators"
  /\ csv_file = NoFile
  /\ NoBatch
  /\ load_result = <<>>

\* features = extract_fault_indicators(accel, fs, running_freq)
ExtractFaultIndicators ==
  /\ pc = "extract_fault_indicators"
  /\ LET res == extract_fault_indicators(asarray(accel), fs)
     IN  IF res.raised # ""
         THEN /\ outcome' = res.raised
              /\ pc' = "raised"
              /\ UNCHANGED features
         ELSE /\ features' = res.features
              /\ pc' = "detect_faults"
              /\ UNCHANGED outcome
  /\ accel' = asarray(accel)
  /\ UNCHANGED <<samples, fs, history, fault_type, fault_list, confidence,
                 fault_scores, health_score, report, loadvars, batchvars>>

\* the caller keeps what the call gave and calls diagnose_vibration again
\* with the same buffer and sampling rate
DiagnoseAgain ==
  /\ pc \in {"done", "raised"}
  /\ Len(history) < MaxRepeats
  /\ history' = Append(history, [outcome |-> outcome, report |-> report])
  /\ outcome' = ""
  /\ pc' = "extract_fault_indicators"
  /\ UNCHANGED <<samples, accel, fs, features, fault_type, fault_list, confidence,
                 fault_scores, health_score, report, loadvars, batchvars>>

NextSignal ==
  \/ ExtractFaultIndicators
  \/ DetectFaults
  \/ CalculateHealthScore
  \/ CompileReport
  \/ DiagnoseAgain

SpecSignal == InitSignal /\ [][NextSignal]_vars

(* load_csv(path) on a CSV file. *)

InitLoad ==
  /\ csv_file \in Files
  /\ NoBatch
  /\ load_result = <<>>
  /\ outcome = ""
  /\ pc = "load_csv"
  /\ samples = <<>>
  /\ accel = <<>>
  /\ fs = <<>>
  /\ history = <<>>
  /\ features = EmptyDict
  /\ fault_type = ""
  /\ fault_list = <<>>
  /\ confidence = 0
  /\ fault_scores = EmptyDict
  /\ health_score = 0
  /\ report = <<>>

\* time, accel, fs = load_csv(path)
LoadCsv ==
  /\ pc = "load_csv"
  /\ LET res == load_csv(csv_file)
     IN  IF res.raised # ""
         THEN /\ outcome' = res.raised
              /\ pc' = "raised"
              /\ UNCHANGED load_result
         ELSE /\ load_result' = <<[time |-> res.time, accel |-> res.accel, fs |-> res.fs]>>
              /\ pc' = "loaded"
              /\ UNCHANGED outcome
  /\ UNCHANGED <<csv_file, samples, accel, fs, history, features, fault_type,
                 fault_list, confidence, fault_scores, health_score, report,
                 batchvars>>

NextLoad == LoadCsv

SpecLoad == InitLoad /\ [][NextLoad]_vars

-----------------------------------------------------------------------------
(* Properties of the classifier and the scorer.                            *)

\* the classifier has returned
Classified == pc \in {"calculate_health_score", "compile_report", "done"}

\* the scorer has returned
Scored == pc \in {"compile_report", "done"}

\* the value the source reads for a feature: the entry, or the default of
\* its get() when the mapping has no such entry
Feature(name) ==
  IF name \in DOMAIN features THEN features[name]
  ELSE IF name = "kurtosis" THEN 300 ELSE 0

\* the members of the fired list
Fired == {fault_list[i] : i \in 1..Len(fault_list)}

\* C1: whatever feature mapping, primary fault and confidence the scorer is
\* given, the score it returns is an integer between 0 and 100.
C1_ScoreInRange == Scored => health_score \in 0..100

\* C1 witness: every penalty applies at once (running total -15) and the
\* returned score is 0.
C1_Witness ==
  /\ Scored
  /\ fault_type = MULTIPLE
  /\ Feature("rms") > 60
  /\ Feature("kurtosis") > 800
  /\ Feature("crest_factor") > 800
  /\ Feature("total_energy") > 50
  /\ health_score = 0

\* C2: the confidence returned by the classifier lies in [0,1]; it is 0.9
\* when no fault fired, and otherwise every fired fault's confidence is
\* positive and at most 1.0.
C2_ConfidenceInUnitInterval ==
  Classified =>
    /\ confidence >= 0
    /\ confidence <= OneUnit
    /\ fault_list = <<>> => confidence * 10 = 9 * OneUnit
    /\ \A k \in DOMAIN fault_scores :
         fault_scores[k] > 0 /\ fault_scores[k] <= OneUnit
    /\ fault_list # <<>> => confidence > 0

\* C2 witness: imbalance fired on an amplitude above 0.8, where the cap
\* applies, and the confidence is exactly 1.0.
C2_Witness ==
  /\ Classified
  /\ Feature("1x_amplitude") > 80
  /\ fault_list = <<IMBALANCE>>
  /\ confidence = OneUnit

\* position of a detectable fault in the fixed check order
CheckOrder(x) == CASE x = IMBALANCE -> 1 [] x = MISALIGNMENT -> 2 [] x = BEARING -> 3

\* C3: the fired list holds only IMBALANCE, MISALIGNMENT and BEARING, each
\* at most once, in that order.
C3_FaultListOrdered ==
  Classified =>
    /\ \A i \in 1..Len(fault_list) :
         fault_list[i] \in {IMBALANCE, MISALIGNMENT, BEARING}
    /\ \A i, j \in 1..Len(fault_list) :
         i < j => CheckOrder(fault_list[i]) < CheckOrder(fault_list[j])

\* C3 witness: all three faults fired.
C3_Witness == Classified /\ fault_list = <<IMBALANCE, MISALIGNMENT, BEARING>>

\* C4: no fault fired gives NORMAL with confidence 0.9; exactly one gives
\* that fault with its confidence; two or more give MULTIPLE with the
\* largest of the fired faults' confidences.
C4_PrimaryResolution ==
  Classified =>
    /\ Len(fault_list) = 0 =>
         fault_type = NORMAL /\ confidence * 10 = 9 * OneUnit
    /\ Len(fault_list) = 1 =>
         fault_type = fault_list[1] /\ confidence = fault_scores[fault_list[1]]
    /\ Len(fault_list) >= 2 =>
         /\ fault_type = MULTIPLE
         /\ \E i \in 1..Len(fault_list) : confidence = fault_scores[fault_list[i]]
         /\ \A i \in 1..Len(fault_list) : fault_scores[fault_list[i]] <= confidence
    /\ fault_type = NORMAL <=> Len(fault_list) = 0
    /\ fault_type = MULTIPLE <=> Len(fault_list) >= 2

\* C4 witness: two faults of different confidence fired (imbalance at
\* 0.41/0.8, bearing at 0.7) and the larger one is reported with MULTIPLE.
C4_Witness ==
  /\ Classified
  /\ fault_list = <<IMBALANCE, BEARING>>
  /\ fault_scores[IMBALANCE] < fault_scores[BEARING]
  /\ fault_type = MULTIPLE
  /\ confidence = fault_scores[BEARING]

\* C5: IMBALANCE fires iff 1x_amplitude > 0.4, with confidence
\* min(1.0, 1x_amplitude / 0.8); MISALIGNMENT fires iff 2x_amplitude > 0.3,
\* with confidence min(1.0, 2x_amplitude / 0.6); neither rule looks at the
\* other, and a value exactly on its threshold does not fire.
C5_AmplitudeRules ==
  Classified =>
    LET a1 == Feature("1x_amplitude")
        a2 == Feature("2x_amplitude")
    IN  /\ IMBALANCE \in Fired <=> a1 > 40
        /\ IMBALANCE \in DOMAIN fault_scores <=> a1 > 40
        /\ a1 > 40 =>
             IF a1 >= 80 THEN fault_scores[IMBALANCE] = OneUnit
             ELSE fault_scores[IMBALANCE] * 80 = a1 * OneUnit
        /\ MISALIGNMENT \in Fired <=> a2 > 30
        /\ MISALIGNMENT \in DOMAIN fault_scores <=> a2 > 30
        /\ a2 > 30 =>
             IF a2 >= 60 THEN fault_scores[MISALIGNMENT] = OneUnit
             ELSE fault_scores[MISALIGNMENT] * 60 = a2 * OneUnit

\* C5 witness: 1x_amplitude 0.41 fires IMBALANCE with confidence 0.41/0.8
\* while 2x_amplitude exactly 0.3 does not fire MISALIGNMENT.
C5_Witness ==
  /\ Classified
  /\ Feature("1x_amplitude") = 41
  /\ Feature("2x_amplitude") = 30
  /\ fault_list = <<IMBALANCE>>
  /\ confidence * 80 = 41 * OneUnit

\* the bearing score in tenths: 4 for kurtosis > 4.0, 3 for crest_factor >
\* 6.0, 3 for hf_energy > 0.02
BearingTenths ==
  (IF Feature("kurtosis") > 400 THEN 4 ELSE 0)
  + (IF Feature("crest_factor") > 600 THEN 3 ELSE 0)
  + (IF Feature("hf_energy") > 2 THEN 3 ELSE 0)

\* C6: BEARING fires iff 0.4[kurtosis > 4.0] + 0.3[crest_factor > 6.0] +
\* 0.3[hf_energy > 0.02] exceeds 0.5, with that sum, capped at 1.0, as its
\* confidence, whatever the other two rules did.
C6_BearingRule ==
  Classified =>
    /\ BEARING \in Fired <=> BearingTenths > 5
    /\ BEARING \in DOMAIN fault_scores <=> BearingTenths > 5
    /\ BearingTenths > 5 =>
         fault_scores[BEARING] * 10 = Min(10, BearingTenths) * OneUnit

\* C6 witness: kurtosis and hf_energy fire without crest factor (score 0.7)
\* while IMBALANCE fired too, and kurtosis exactly 4.0 would not count.
C6_Witness ==
  /\ Classified
  /\ Feature("kurtosis") = 401
  /\ Feature("crest_factor") = 600
  /\ Feature("hf_energy") = 3
  /\ fault_list = <<IMBALANCE, BEARING>>
  /\ fault_scores[BEARING] * 10 = 7 * OneUnit

\* the penalties of the reference fold, in whole points
RmsPenalty ==
  IF Feature("rms") > 60 THEN 30 ELSE IF Feature("rms") > 30 THEN 15 ELSE 0

KurtosisPenalty ==
  IF Feature("kurtosis") > 800 THEN 20
  ELSE IF Feature("kurtosis") > 500 THEN 10 ELSE 0

CrestPenalty ==
  IF Feature("crest_factor") > 800 THEN 15
  ELSE IF Feature("crest_factor") > 600 THEN 8 ELSE 0

EnergyPenalty == IF Feature("total_energy") > 50 THEN 10 ELSE 0

\* the fault-type penalty, in units of 1/OneUnit of a point
FaultPenalty ==
  CASE fault_type = NORMAL -> 0
    [] fault_type = IMBALANCE -> 15 * confidence
    [] fault_type = MISALIGNMENT -> 20 * confidence
    [] fault_type = BEARING -> 35 * confidence
    [] fault_type = MULTIPLE -> 40 * OneUnit

\* the reference fold: 100 less every penalty, clamped to [0,100], in
\* units of 1/OneUnit of a point
ReferenceTotal ==
  LET total == (100 - RmsPenalty - KurtosisPenalty - CrestPenalty - EnergyPenalty)
                 * OneUnit - FaultPenalty
  IN  IF total < 0 THEN 0
      ELSE IF total > 100 * OneUnit THEN 100 * OneUnit
      ELSE total

C8_StatusLabel ==
  pc = "done" =>
    /\ report.health_score = health_score
    /\ health_score >= 85 => report.status = "HEALTHY"
    /\ (health_score >= 70 /\ health_score < 85) => report.status = "ACCEPTABLE"
    /\ (health_score >= 50 /\ health_score < 70) => report.status = "WARNING"
    /\ health_score < 50 => report.status = "CRITICAL"

\* C8 witness: a score exactly on the breakpoint 70 is ACCEPTABLE.
C8_Witness == pc = "done" /\ health_score = 70 /\ report.status = "ACCEPTABLE"

\* the lines of a rule when it applies, nothing otherwise
LinesIf(applies, lines) == IF applies THEN lines ELSE <<>>

\* C9: the recommendation list is the concatenation, in order, of the lines
\* of: NORMAL primary; IMBALANCE fired; MISALIGNMENT fired; BEARING fired;
\* more than one fault fired; score < 50, else score < 70.
C9_Recommendations ==
  pc = "done" =>
    report.recommendations =
      LinesIf(fault_type = NORMAL, NormalLines)
      \o LinesIf(IMBALANCE \in Fired, ImbalanceLines)
      \o LinesIf(MISALIGNMENT \in Fired, MisalignmentLines)
      \o LinesIf(BEARING \in Fired, BearingLines)
      \o LinesIf(Len(fault_list) > 1, <<MultipleLine>>)
      \o LinesIf(health_score < 50, <<ImmediateLine>>)
      \o LinesIf(health_score >= 50 /\ health_score < 70, <<PlanLine>>)

\* C9 witness: all three faults fired with a score below 50: nine lines,
\* none suppressed.
C9_Witness ==
  /\ pc = "done"
  /\ fault_type = MULTIPLE
  /\ Fired = {IMBALANCE, MISALIGNMENT, BEARING}
  /\ health_score < 50
  /\ Len(report.recommendations) = 9

\* the mapping with every absent feature filled in: 3.0 for kurtosis, 0 for
\* the others
Completed(f) ==
  [n \in FeatureNames |->
     IF n \in DOMAIN f THEN f[n] ELSE IF n = "kurtosis" THEN 300 ELSE 0]

\* C10: on a mapping that lacks features the classifier and the scorer
\* return what they return on the mapping completed with the defaults (0,
\* and 3.0 for kurtosis); the empty mapping is NORMAL, with nothing fired,
\* confidence 0.9 and score 100.
C10_AbsentFeaturesDefault ==
  /\ Classified =>
       LET r == detect_faults(Completed(features))
       IN  /\ fault_type = r.primary_fault
           /\ fault_list = r.detected_faults
           /\ confidence = r.confidence
  /\ Scored =>
       health_score =
         calculate_health_score(Completed(features), fault_type, fault_list, confidence)
  /\ (Classified /\ features = EmptyDict) =>
       fault_type = NORMAL /\ fault_list = <<>> /\ confidence * 10 = 9 * OneUnit
  /\ (Scored /\ features = EmptyDict) => health_score = 100

\* C10 witness: the pipeline has run on the empty mapping.
C10_Witness ==
  /\ Scored
  /\ features = EmptyDict
  /\ fault_type = NORMAL
  /\ health_score = 100

\* the severity and energy penalties of the reference fold, in whole points
SeverityPenalty == RmsPenalty + KurtosisPenalty + CrestPenalty + EnergyPenalty

\* C14: whenever kurtosis > 4.0 and hf_energy > 0.02, BEARING fires with
\* confidence at least 0.7 and the primary fault is BEARING or MULTIPLE, so
\* the score is at most 76 (never HEALTHY); it is 76, not below 50, when
\* BEARING is alone on those two indicators and no other penalty applies.
C14_BearingScoreBound ==
  (Scored /\ Feature("kurtosis") > 400 /\ Feature("hf_energy") > 2) =>
    /\ BEARING \in Fired
    /\ fault_scores[BEARING] * 10 >= 7 * OneUnit
    /\ fault_type \in {BEARING, MULTIPLE}
    /\ health_score <= 76
    /\ SeverityPenalty = 0 => health_score >= 60
    /\ (fault_type = BEARING /\ SeverityPenalty = 0 /\ Feature("crest_factor") <= 600)
         => health_score = 76

\* C14 witness: kurtosis 4.01 and hf_energy 0.03 alone: BEARING at 0.7,
\* running total 75.5, score 76.
C14_Witness ==
  /\ Scored
  /\ Feature("kurtosis") = 401
  /\ Feature("hf_energy") = 3
  /\ fault_type = BEARING
  /\ SeverityPenalty = 0
  /\ health_score = 76

\* C14 as stated: whenever BEARING fires with kurtosis > 4.0 and hf_energy >
\* 0.02, the score is below 50.
C14_ScoreBelow50 ==
  (Scored /\ BEARING \in Fired /\ Feature("kurtosis") > 400
     /\ Feature("hf_energy") > 2) => health_score < 50

\* C15: the score is a nearest integer to the clamped running total, and
\* a running total exactly halfway between two integers goes to the even
\* one (60.5 gives 60, 75.5 gives 76).
C15_RoundHalfEven ==
  Scored =>
    /\ 2 * (health_score * OneUnit - ReferenceTotal) <= OneUnit
    /\ 2 * (ReferenceTotal - health_score * OneUnit) <= OneUnit
    /\ 2 * (ReferenceTotal % OneUnit) = OneUnit => health_score % 2 = 0

\* C15 witness: an rms penalty of 15 and a BEARING penalty of 35 * 0.7 leave
\* a running total of 60.5, and the score is 60.
C15_Witness ==
  /\ Scored
  /\ RmsPenalty = 15
  /\ fault_type = BEARING
  /\ confidence * 10 = 7 * OneUnit
  /\ 2 * ReferenceTotal = 121 * OneUnit
  /\ health_score = 60

\* C15 as stated: a running total exactly halfway between two integers is
\* rounded away from zero (60.5 gives 61).
C15_RoundHalfAwayFromZero ==
  Scored =>
    /\ 2 * (health_score * OneUnit - ReferenceTotal) <= OneUnit
    /\ 2 * (ReferenceTotal - health_score * OneUnit) <= OneUnit
    /\ 2 * (ReferenceTotal % OneUnit) = OneUnit =>
         health_score = (ReferenceTotal \div OneUnit) + 1

\* the lines of a report's recommendation list
RecommendationLines ==
  {report.recommendations[i] : i \in 1..Len(report.recommendations)}

\* C19: in a report the immediate-maintenance line is present iff the
\* status is CRITICAL, the plan-maintenance line iff it is WARNING, neither
\* iff it is HEALTHY or ACCEPTABLE, and never both.
C19_MaintenanceLineAgreesWithStatus ==
  pc = "done" =>
    /\ ImmediateLine \in RecommendationLines <=> report.status = "CRITICAL"
    /\ PlanLine \in RecommendationLines <=> report.status = "WARNING"
    /\ (ImmediateLine \notin RecommendationLines /\ PlanLine \notin RecommendationLines)
         <=> report.status \in {"HEALTHY", "ACCEPTABLE"}
    /\ ~(ImmediateLine \in RecommendationLines /\ PlanLine \in RecommendationLines)

\* C19 witness: a score exactly 50 is WARNING and carries the plan line, not
\* the immediate one.
C19_Witness ==
  /\ pc = "done"
  /\ health_score = 50
  /\ report.status = "WARNING"
  /\ PlanLine \in RecommendationLines
  /\ ImmediateLine \notin RecommendationLines

\* C20: a report whose primary fault is NORMAL has a score of at least 40:
\* the kurtosis and crest-factor penalties never both apply, so the
\* deductions are at most 30 + 20 + 10.
C20_NormalScoreAtLeast40 ==
  (Scored /\ fault_type = NORMAL) =>
    /\ ~(KurtosisPenalty > 0 /\ CrestPenalty > 0)
    /\ SeverityPenalty <= 60
    /\ health_score = 100 - SeverityPenalty
    /\ health_score >= 40

\* C20 witness: rms > 0.6, kurtosis > 8 and total_energy > 0.5 with nothing
\* fired: NORMAL with score exactly 40 and status CRITICAL.
C20_Witness ==
  /\ pc = "done"
  /\ fault_type = NORMAL
  /\ RmsPenalty = 30 /\ KurtosisPenalty = 20 /\ EnergyPenalty = 10
  /\ health_score = 40
  /\ report.status = "CRITICAL"

(* analyze_all_files(pattern, running_freq) on the files glob.glob lists. *)

InitBatch ==
  /\ listing \in Listings
  /\ running_freq \in RunningFreqs
  /\ files = <<>>
  /\ position = 0
  /\ results = <<>>
  /\ trace = <<>>
  /\ summary = FALSE
  /\ returned = ""
  /\ pc = "glob"
  /\ csv_file = NoFile
  /\ load_result = <<>>
  /\ outcome = ""
  /\ samples = <<>>
  /\ accel = <<>>
  /\ fs = <<>>
  /\ history = <<>>
  /\ features = EmptyDict
  /\ fault_type = ""
  /\ fault_list = <<>>
  /\ confidence = 0
  /\ fault_scores = EmptyDict
  /\ health_score = 0
  /\ report = <<>>

\* for filepath in files: the loop takes the file at index i, or ends when
\* the list is exhausted
Iterate(file_list, i) ==
  /\ position' = i
  /\ outcome' = ""
  /\ IF i <= Len(file_list)
     THEN /\ csv_file' = file_list[i].file
          /\ pc' = "load_csv"
     ELSE /\ csv_file' = csv_file
          /\ pc' = "summary"

\* files = sorted(glob.glob(pattern)); without files the function prints a
\* message and returns (None); otherwise results = [] and the loop begins
Glob ==
  /\ pc = "glob"
  /\ files' = sorted(listing)
  /\ IF files' = <<>>
     THEN /\ returned' = "None"
          /\ pc' = "returned"
          /\ UNCHANGED <<position, outcome, csv_file>>
     ELSE /\ Iterate(files', 1)
          /\ UNCHANGED returned
  /\ results' = <<>>
  /\ UNCHANGED <<listing, running_freq, trace, summary, load_result, samples,
                 accel, fs, history, features, fault_type, fault_list,
                 confidence, fault_scores, health_score, report>>

\* if fs is None: print the warning and continue; otherwise call
\* diagnose_vibration(accel, fs, running_freq)
CheckRate ==
  /\ pc = "loaded"
  /\ position \in DOMAIN files
  /\ IF load_result[1].fs = <<>>
     THEN /\ trace' = Append(trace, [name |-> files[position].name,
                                     event |-> "warning"])
          /\ Iterate(files, position + 1)
          /\ UNCHANGED <<samples, accel, fs>>
     ELSE /\ trace' = Append(trace, [name |-> files[position].name,
                                     event |-> "diagnose_vibration"])
          /\ samples' = load_result[1].accel
          /\ accel' = load_result[1].accel
          /\ fs' = rate_of(load_result[1].fs[1])
          /\ pc' = "extract_fault_indicators"
          /\ UNCHANGED <<position, outcome, csv_file>>
  /\ UNCHANGED <<listing, files, running_freq, results, summary, returned,
                 load_result, history, features, fault_type, fault_list,
                 confidence, fault_scores, health_score, report>>

\* report = diagnose_vibration(accel, fs, running_freq), up to the feature
\* mapping: with running_freq None the first peak_frequency_amplitude raises
DiagnoseFile ==
  /\ pc = "extract_fault_indicators"
  /\ IF extract_raises(accel, fs) = "" /\ peak_frequency_raises(running_freq)
     THEN /\ outcome' = diagnose_raises(accel, fs, running_freq)
          /\ pc' = "raised"
          /\ UNCHANGED <<samples, accel, fs, history, features, fault_type,
                         fault_list, confidence, fault_scores, health_score,
                         report, loadvars, batchvars>>
     ELSE ExtractFaultIndicators

\* report['filename'] = ...; report['sampling_freq'] = fs;
\* results.append(report); print_report(...)
Collect ==
  /\ pc = "done"
  /\ results' = Append(results, [filename |-> files[position].name,
                                 sampling_freq |-> fs,
                                 report |-> report])
  /\ trace' = Append(trace, [name |-> files[position].name, event |-> "report"])
  /\ Iterate(files, position + 1)
  /\ UNCHANGED <<listing, files, running_freq, summary, returned, load_result,
                 samples, accel, fs, history, features, fault_type, fault_list,
                 confidence, fault_scores, health_score, report>>

\* except Exception as e: print the error line and continue
HandleException ==
  /\ pc = "raised"
  /\ outcome \in Exception
  /\ trace' = Append(trace, [name |-> files[position].name, event |-> "error"])
  /\ Iterate(files, position + 1)
  /\ UNCHANGED <<listing, files, running_freq, results, summary, returned,
                 load_result, samples, accel, fs, history, features, fault_type,
                 fault_list, confidence, fault_scores, health_score, report>>

\* if len(results) > 1: print_summary_comparison(results); return results
Summary ==
  /\ pc = "summary"
  /\ summary' = (Len(results) > 1)
  /\ returned' = "results"
  /\ pc' = "returned"
  /\ UNCHANGED <<listing, files, position, running_freq, results, trace,
                 features, fault_type, fault_list, confidence, fault_scores,
                 health_score, report, sigvars, loadvars>>

NextBatch ==
  \/ Glob
  \/ LoadCsv
  \/ CheckRate
  \/ DiagnoseFile
  \/ DetectFaults
  \/ CalculateHealthScore
  \/ CompileReport
  \/ Collect
  \/ HandleException
  \/ Summary

SpecBatch == InitBatch /\ [][NextBatch]_vars

-----------------------------------------------------------------------------
(* Properties of the calls on a signal and of load_csv.                    *)

\* the call of diagnose_vibration has ended: it returned or it raised
CallEnded == pc \in {"done", "raised"}

\* the sampling rate is None, zero or negative
BadRate == fs = <<>> \/ fs[1] <= 0

\* C11: diagnose_vibration on an empty sample sequence ends in an error
\* (ValueError) without building a feature mapping or a report, and no
\* feature mapping ever holds a NaN.
C11_EmptySignalRaises ==
  /\ (samples = <<>> /\ pc # "extract_fault_indicators") =>
       pc = "raised" /\ outcome = "ValueError"
  /\ samples = <<>> => features = EmptyDict /\ report = <<>>
  /\ \A n \in DOMAIN features : features[n] # NaN

\* C11 witness: the call on the empty sequence with a sound sampling rate
\* has raised.
C11_Witness ==
  /\ samples = <<>>
  /\ fs = <<120>>
  /\ pc = "raised"
  /\ outcome = "ValueError"
  /\ report = <<>>

\* C12: a call with a sampling rate that is None, zero or negative ends in
\* an error and returns no feature mapping and no report.
C12_BadRateRaises ==
  (BadRate /\ pc # "extract_fault_indicators" /\ history = <<>>) =>
    pc = "raised" /\ features = EmptyDict /\ report = <<>>

\* C12 witness: a call with a negative sampling rate has returned a report.
C12_Witness ==
  /\ fs = <<0 - 120>>
  /\ samples = <<5, 0 - 5>>
  /\ pc = "done"
  /\ outcome = ""
  /\ report.status = "HEALTHY"

\* C13: in a diagnosis with primary fault IMBALANCE whose rms, kurtosis and
\* crest factor are within normal bounds, no severity or energy penalty
\* applies and the score is 100 - 15 * confidence brought to a nearest
\* integer.
C13_ImbalancePenaltyOnly ==
  (Scored /\ fault_type = IMBALANCE /\ Feature("rms") <= 30
     /\ Feature("kurtosis") <= 500 /\ Feature("crest_factor") <= 600) =>
    /\ SeverityPenalty = 0
    /\ 2 * (health_score * OneUnit - (Pts(100) - 15 * confidence)) <= OneUnit
    /\ 2 * ((Pts(100) - 15 * confidence) - health_score * OneUnit) <= OneUnit

\* C13 witness: 0.25, -0.25 sampled at 60 Hz: rms 0.25, 1x amplitude 0.5,
\* IMBALANCE at 0.625, total energy 0.25, score 91.
C13_Witness ==
  /\ Scored
  /\ samples = <<5, 0 - 5>>
  /\ fs = <<60>>
  /\ fault_type = IMBALANCE
  /\ Feature("rms") = 25
  /\ Feature("total_energy") = 25
  /\ confidence * 80 = 50 * OneUnit
  /\ health_score = 91

ConstantSignal == \A i, j \in DOMAIN accel : accel[i] = accel[j]

\* the signal is all zero
ZeroSignal == \A i \in DOMAIN accel : accel[i] = 0

\* no frequency bin of the signal's spectrum lies in [f_low, f_high]
NoBinIn(f_low, f_high) == band_mask(rfftfreq(Len(accel), fs), f_low, f_high) = {}

\* C17: where extract_fault_indicators returns, kurtosis is 0 on a constant
\* signal, rms and crest_factor are 0 on an all-zero signal, the centroid
\* is 0 on a zero spectrum, a peak amplitude is 0 when its window holds no
\* bin, and a band energy is 0 when its band holds no bin.
C17_DegenerateCasesReturnZero ==
  pc = "detect_faults" =>
    /\ ConstantSignal => features["kurtosis"] = 0
    /\ ZeroSignal => features["rms"] = 0 /\ features["crest_factor"] = 0
    /\ ZeroSignal => features["spectral_centroid"] = 0
    /\ NoBinIn(<<DefaultRunningFreq - 2, 1>>, <<DefaultRunningFreq + 2, 1>>)
         => features["1x_amplitude"] = 0
    /\ NoBinIn(<<2 * DefaultRunningFreq - 2, 1>>, <<2 * DefaultRunningFreq + 2, 1>>)
         => features["2x_amplitude"] = 0
    /\ NoBinIn(<<100, 1>>, <<fs[1], 2>>) => features["hf_energy"] = 0
    /\ NoBinIn(<<0, 1>>, <<50, 1>>) => features["lf_energy"] = 0
    /\ NoBinIn(<<0, 1>>, <<fs[1], 2>>) => features["total_energy"] = 0

\* C17 witness: the constant signal 0.4, 0.4, 0.4 has kurtosis 1.0.
C17_Witness ==
  /\ pc = "detect_faults"
  /\ samples = <<8, 8, 8>>
  /\ features["kurtosis"] = 100

\* the file has a time column
HasTimeColumn == \E j \in DOMAIN csv_file.cols : csv_file.cols[j] = "time"

\* the time column of the file
TimeColumn ==
  LET j == CHOOSE j \in DOMAIN csv_file.cols : csv_file.cols[j] = "time"
  IN  [i \in DOMAIN csv_file.rows |-> csv_file.rows[i][j]]

\* C18: load_csv returns; the sampling rate it returns is None when there
\* is no time column, when the time column has fewer than 2 points or when
\* the median time difference is not positive, and 1 / median otherwise,
\* which is positive.
C18_SamplingRateNoneOrPositive ==
  pc # "load_csv" =>
    /\ pc = "loaded"
    /\ IF ~HasTimeColumn THEN load_result[1].fs = <<>>
       ELSE IF Len(TimeColumn) < 2 THEN load_result[1].fs = <<>>
       ELSE IF np_median_doubled(np_diff(TimeColumn)) <= 0
       THEN load_result[1].fs = <<>>
       ELSE /\ load_result[1].fs = <<(<<2, np_median_doubled(np_diff(TimeColumn))>>)>>
            /\ load_result[1].fs[1][1] > 0 /\ load_result[1].fs[1][2] > 0

\* C18 witness: load_csv on a file with a time column and exactly one data
\* row has raised TypeError.
C18_Witness ==
  /\ HasTimeColumn
  /\ Len(csv_file.rows) = 1
  /\ pc = "raised"
  /\ outcome = "TypeError"
  /\ load_result = <<>>

\* the energy spectral_energy returns for a band of the call's signal, as
\* an exact fraction of hundredths
BandEnergy(f_low, f_high) ==
  LET spectrum == compute_fft(accel, fs)
  IN  spectral_energy(spectrum.freqs, spectrum.mags, f_low, f_high)

\* the call has a positive sampling rate and its feature mapping was built
FeaturesBuilt == features # EmptyDict /\ fs # <<>> /\ fs[1] > 0

\* C21: in the feature mapping built from a signal at a positive sampling
\* rate, hf_energy, lf_energy and total_energy are non-negative, hf_energy
\* plus lf_energy is at most total_energy, and hf_energy is 0 when the
\* Nyquist frequency is below 100 Hz.
C21_BandEnergiesWithinTotal ==
  FeaturesBuilt =>
    LET hf == BandEnergy(<<100, 1>>, <<fs[1], 2>>)
        lf == BandEnergy(<<0, 1>>, <<50, 1>>)
        total == BandEnergy(<<0, 1>>, <<fs[1], 2>>)
    IN  /\ features["hf_energy"] = stored(hf)
        /\ features["lf_energy"] = stored(lf)
        /\ features["total_energy"] = stored(total)
        /\ hf[1] >= 0 /\ lf[1] >= 0 /\ total[1] >= 0
        /\ hf[1] + lf[1] <= total[1]
        /\ fs[1] < 200 => features["hf_energy"] = 0

\* C21 witness: 0.25, -0.25 sampled at 49 Hz: the Nyquist bin is computed
\* at 24.500000000000004 Hz, above fs/2 = 24.5, so total_energy is 0 while
\* lf_energy is 0.25.
C21_Witness ==
  /\ samples = <<5, 0 - 5>>
  /\ fs = <<49>>
  /\ pc = "done"
  /\ features["lf_energy"] = 25
  /\ features["hf_energy"] = 0
  /\ features["total_energy"] = 0

-----------------------------------------------------------------------------
(* Properties of analyze_all_files.                                        *)

\* the names of a sequence of files or of trace entries
Names(l) == [i \in DOMAIN l |-> l[i].name]

\* the trace entries that end a file's iteration
Closing(t) == t.event \in {"warning", "error", "report"}

\* load_csv returns for the file, with a sampling rate
LoadsWithRate(f) == load_csv(f.file).raised = "" /\ load_csv(f.file).fs # <<>>

\* the file loads with a sampling rate and its diagnosis does not raise
Diagnosable(f) ==
  /\ LoadsWithRate(f)
  /\ diagnose_raises(load_csv(f.file).accel, rate_of(load_csv(f.file).fs[1]),
                     running_freq) = ""

\* diagnose_vibration was called for the file
DiagnoseCalled(f) ==
  \E i \in DOMAIN trace :
    trace[i].name = f.name /\ trace[i].event = "diagnose_vibration"

\* the files are visited one by one in ascending order of name: the
\* iterations ended so far are those of the first position - 1 files of the
\* sorted list
VisitedInOrder ==
  position >= 1 =>
    /\ Len(files) = Len(listing)
    /\ {files[i] : i \in DOMAIN files} = {listing[i] : i \in DOMAIN listing}
    /\ \A i, j \in DOMAIN files : i < j => files[i].name < files[j].name
    /\ Names(SelectSeq(trace, Closing)) = [i \in 1..(position - 1) |-> files[i].name]

\* a file without a sampling rate is never diagnosed, and the calls made
\* are for files that loaded with one
SkippedWithoutDiagnosis ==
  \A i \in DOMAIN files : DiagnoseCalled(files[i]) => LoadsWithRate(files[i])

\* the results are the reports of the diagnosable files among those whose
\* iteration has ended, in file order, each with its file's name, sampling
\* rate and rms
ResultsAreTheReports ==
  LET ended == SubSeq(files, 1, position - 1)
      good == SelectSeq(ended, Diagnosable)
  IN  position >= 1 =>
        /\ Len(results) = Len(good)
        /\ \A i \in DOMAIN results :
             LET loaded == load_csv(good[i].file)
             IN  /\ results[i].filename = good[i].name
                 /\ results[i].sampling_freq = rate_of(loaded.fs[1])
                 /\ results[i].report.features["rms"] = round4(rms(loaded.accel))

\* the stages of a call in the order a file's iteration passes them
StageOrder ==
  <<"glob", "load_csv", "loaded", "extract_fault_indicators", "detect_faults",
    "calculate_health_score", "compile_report", "done", "raised", "summary",
    "returned">>

\* how far the call has come: the files passed, then the stage within the
\* iteration
Progress(pos, stage) ==
  pos * Len(StageOrder) + (CHOOSE i \in DOMAIN StageOrder : StageOrder[i] = stage)

\* every step of the call advances it, and only a call that has returned
\* has no step left (the feature extraction, a function of its arguments,
\* always returns or raises): the call reaches its end, whatever a file's
\* loading or diagnosis raises
RunsToTheEnd ==
  /\ [][Progress(position', pc') > Progress(position, pc)]_vars
  /\ [](pc \notin {"returned", "extract_fault_indicators"} => ENABLED NextBatch)

\* C22 as stated: the call visits the matched files one by one in sorted
\* order and reaches the end of the list, skips a file without a sampling
\* rate without diagnosing it, skips a file whose loading or diagnosis
\* raises, returns the results list holding one report per file that loaded
\* with a rate and diagnosed without error, in file order, and prints the
\* summary only when more than one report was collected.
C22_ReturnsResultsList ==
  /\ [](VisitedInOrder /\ SkippedWithoutDiagnosis /\ ResultsAreTheReports)
  /\ RunsToTheEnd
  /\ [](summary => Len(results) > 1)
  /\ [](pc = "returned" => returned = "results" /\ position = Len(listing) + 1)

\* C22 amended: as above when at least one file matches, the summary being
\* printed exactly when more than one report was collected; when no file
\* matches, the call returns None at once, without a results list.
C22_ReturnsResultsListOrNone ==
  /\ [](VisitedInOrder /\ SkippedWithoutDiagnosis /\ ResultsAreTheReports)
  /\ RunsToTheEnd
  /\ [](pc = "returned" =>
          IF listing = <<>>
          THEN returned = "None" /\ position = 0 /\ trace = <<>> /\ ~summary
          ELSE /\ returned = "results"
               /\ position = Len(listing) + 1
               /\ summary <=> Len(results) > 1)

\* C22 witness: three files listed out of order; the second has no
\* sampling rate and is skipped, the first and third are reported in that
\* order and the summary is printed.
C22_Witness ==
  /\ pc = "returned"
  /\ returned = "results"
  /\ Len(listing) = 3
  /\ listing[1].name = 3
  /\ Names(trace) = <<1, 1, 2, 3, 3>>
  /\ trace[3].event = "warning"
  /\ Len(results) = 2
  /\ results[1].filename = 1
  /\ results[2].filename = 3
  /\ results[1].report.health_score = 100
  /\ summary

====
